---- MODULE Spec2Model ----
(***************************************************************************)
(* A model of the grid game backend (src/main.py): the process-wide game   *)
(* registry, the board generator, the landing mutation, the move resolver, *)
(* the state snapshot and the breadth-first feasibility checker.           *)
(*                                                                         *)
(* The program's 50x50 board and its budgets of 200 health and 450 moves   *)
(* are scaled down to Rows x Cols, InitHealth and InitMoves; the tile      *)
(* effects are the program's own numbers.                                  *)
(***************************************************************************)
EXTENDS Integers, Sequences, FiniteSets, TLC

\* ---------------------------------------------------------------- bounds
\* rows = 50 and cols = 50 in create_game, scaled down.
Rows == 2
Cols == 4
\* health=200 and moves=450 in create_game, scaled down so that both budgets
\* can run out within MaxSteps moves.
InitHealth == 100
InitMoves == 21
\* random.randint(200, 400) tiles of each hazard kind, scaled down.
MinCount == 0
MaxCount == 1
\* The number of random streams the board generator is run on.
NumSeeds == 2
\* Move requests handled in one behaviour of Spec / of SpecRegistry.
MaxSteps == 4
MaxRegistrySteps == 2
\* Games created in one behaviour of SpecRegistry.
MaxGames == 2
\* The largest health and moves find_winning_path is called with in SpecBFS.
MaxHealthIn == 55
MaxMovesIn == 4

VARIABLES
    games,          \* the registry: game id -> GameState
    request,        \* the request being answered
    response,       \* the dict the handler returned
    nreq,           \* move requests handled so far (bounds the behaviour)
    args,           \* find_winning_path's arguments
    queue,          \* find_winning_path's deque
    visited_tiles,  \* find_winning_path's visited set
    ret,            \* find_winning_path's result; "running" inside the loop
    dropped,        \* history: the entries with health and moves left that
                    \* the loop discarded because their cell was visited
    enqueued,       \* history: the number of entries put on the deque so far
    pc,             \* per request thread: the statement of make_move it is at
    local           \* per request thread: make_move's local variables

vars == <<games, request, response, nreq, args, queue, visited_tiles, ret, dropped,
          enqueued, pc, local>>
bfsvars == <<args, queue, visited_tiles, ret, dropped, enqueued>>
appvars == <<games, request, response, nreq>>
racevars == <<pc, local>>

\* Python's None.
None == <<>>

Max(a, b) == IF a >= b THEN a ELSE b
Min(a, b) == IF a <= b THEN a ELSE b

\* len(board), len(board[0])
NumRows(board) == Cardinality(DOMAIN board)
NumCols(board) == Cardinality(DOMAIN board[0])

\* ------------------------------------------------------- board generator
\* board = [["Blank" for _ in range(50)] for _ in range(50)]
BlankBoard == [r \in 0..(Rows - 1) |-> [c \in 0..(Cols - 1) |-> "Blank"]]

\* The k-th (row, col) pair that random.randint yields on stream `seed`:
\* the cells in row-major order from cell number `seed`, each drawn twice, so
\* that every second draw finds its cell already taken.
Draw(seed, k) ==
    LET i == (seed + (k \div 2)) % (Rows * Cols)
    IN  <<i \div Cols, i % Cols>>

\* The while loop of initialize_board for one tile type: draw a cell, place
\* the tile when the cell is still Blank, draw again otherwise.  Yields the
\* board and the number of draws consumed.
RECURSIVE PlaceTiles(_, _, _, _, _)
PlaceTiles(board, tile_type, count, seed, k) ==
    IF count > 0
    THEN LET row == Draw(seed, k)[1]
             col == Draw(seed, k)[2]
         IN  IF board[row][col] = "Blank"
             THEN PlaceTiles([board EXCEPT ![row][col] = tile_type],
                             tile_type, count - 1, seed, k + 1)
             ELSE PlaceTiles(board, tile_type, count, seed, k + 1)
    ELSE <<board, k>>

\* initialize_board(); tile_counts = <<Speeder, Lava, Mud>> counts, placed in
\* the dict's insertion order.
initialize_board(tile_counts, seed) ==
    LET s == PlaceTiles(BlankBoard, "Speeder", tile_counts[1], seed, 0)
        l == PlaceTiles(s[1], "Lava", tile_counts[2], seed, s[2])
        m == PlaceTiles(l[1], "Mud", tile_counts[3], seed, l[2])
    IN  m[1]

\* --------------------------------------------------------------- registry
\* NewGameId one too low: the id of the newest game.
NewGameIdOffByOne(gs) == ToString(Max(0, Cardinality(DOMAIN gs) - 1))

\* game_id = str(len(games))
NewGameId(gs) == ToString(Cardinality(DOMAIN gs))

\* games[game_id] = game : a dict assignment adds the key or overwrites it.
Store(gs, game_id, game) ==
    [k \in (DOMAIN gs) \cup {game_id} |-> IF k = game_id THEN game ELSE gs[k]]

\* StartCell with the start placed in the last column.
StartCellLastColumn(start_row) == <<start_row, Cols - 1>>

\* The position create_game gives the Start cell and the End cell.
StartCell(start_row) == <<start_row, 0>>
EndCell(end_row) == <<end_row, Cols - 1>>

\* POST /games
create_game(start_row, end_row, tile_counts, seed) ==
    LET game_id == NewGameId(games)
        start == StartCell(start_row)
        end == EndCell(end_row)
        board0 == initialize_board(tile_counts, seed)
        board1 == [board0 EXCEPT ![start[1]][start[2]] = "Start"]
        board2 == [board1 EXCEPT ![end[1]][end[2]] = "End"]
    IN  /\ games' = Store(games, game_id,
                          [player_position |-> start,
                           board |-> board2,
                           health |-> InitHealth,
                           moves |-> InitMoves,
                           end_position |-> end])
        /\ request' = [op |-> "create_game", game_id |-> "", direction |-> ""]
        /\ response' = [game_id |-> game_id]

\* ------------------------------------------------------- landing mutation
\* LandingEffect with a Speeder cell giving 5 health instead of taking it.
LandingEffectSpeederHeals(cell_type) ==
    IF cell_type = "Blank" THEN <<0, -1>>
    ELSE IF cell_type = "Speeder" THEN <<5, 0>>
    ELSE IF cell_type = "Lava" THEN <<-50, -10>>
    ELSE IF cell_type = "Mud" THEN <<-10, -5>>
    ELSE <<0, 0>>

\* LandingEffect with a Start cell taking one move, as a Blank cell does.
LandingEffectStartAsBlank(cell_type) ==
    IF cell_type = "Blank" \/ cell_type = "Start" THEN <<0, -1>>
    ELSE IF cell_type = "Speeder" THEN <<-5, 0>>
    ELSE IF cell_type = "Lava" THEN <<-50, -10>>
    ELSE IF cell_type = "Mud" THEN <<-10, -5>>
    ELSE <<0, 0>>

\* LandingEffect with a Blank cell taking no move.
LandingEffectBlankFree(cell_type) ==
    IF cell_type = "Blank" THEN <<0, 0>>
    ELSE IF cell_type = "Speeder" THEN <<-5, 0>>
    ELSE IF cell_type = "Lava" THEN <<-50, -10>>
    ELSE IF cell_type = "Mud" THEN <<-10, -5>>
    ELSE <<0, 0>>

\* LandingEffect with the Mud branch taking the moves of the Lava branch.
LandingEffectMudAsLava(cell_type) ==
    IF cell_type = "Blank" THEN <<0, -1>>
    ELSE IF cell_type = "Speeder" THEN <<-5, 0>>
    ELSE IF cell_type = "Lava" THEN <<-50, -10>>
    ELSE IF cell_type = "Mud" THEN <<-10, -10>>
    ELSE <<0, 0>>

\* The (health, moves) change update_game_state makes for a cell type; a
\* cell type none of its branches names changes neither.
LandingEffect(cell_type) ==
    IF cell_type = "Blank" THEN <<0, -1>>
    ELSE IF cell_type = "Speeder" THEN <<-5, 0>>
    ELSE IF cell_type = "Lava" THEN <<-50, -10>>
    ELSE IF cell_type = "Mud" THEN <<-10, -5>>
    ELSE <<0, 0>>

\* update_game_state that also turns the cell landed on into a Blank cell.
update_game_state_clears_cell(game, row, col) ==
    LET cell_type == game.board[row][col]
    IN  [game EXCEPT !.health = @ + LandingEffect(cell_type)[1],
                     !.moves = @ + LandingEffect(cell_type)[2],
                     !.player_position = <<row, col>>,
                     !.board[row][col] = "Blank"]

\* update_game_state that applies no effect when the player stays on their cell.
update_game_state_skips_same_cell(game, row, col) ==
    LET cell_type == game.board[row][col]
    IN  IF <<row, col>> = game.player_position
        THEN game
        ELSE [game EXCEPT !.health = @ + LandingEffect(cell_type)[1],
                          !.moves = @ + LandingEffect(cell_type)[2],
                          !.player_position = <<row, col>>]

\* update_game_state(game, row, col): the game after the mutation.
update_game_state(game, row, col) ==
    LET cell_type == game.board[row][col]
    IN  [game EXCEPT !.health = @ + LandingEffect(cell_type)[1],
                     !.moves = @ + LandingEffect(cell_type)[2],
                     !.player_position = <<row, col>>]

\* ----------------------------------------------------------- move resolver
\* Directions with one more string taken for a direction.
DirectionsAndJump == {"up", "down", "left", "right", "jump"}

\* The direction strings make_move has a branch for.
Directions == {"up", "down", "left", "right"}

\* Target with the step wrapped around the board instead of clamped.
TargetWrapped(game, direction) ==
    LET row == game.player_position[1]
        col == game.player_position[2]
    IN  IF direction = "up" THEN <<(row - 1) % NumRows(game.board), col>>
        ELSE IF direction = "down" THEN <<(row + 1) % NumRows(game.board), col>>
        ELSE IF direction = "left" THEN <<row, (col - 1) % NumCols(game.board)>>
        ELSE <<row, (col + 1) % NumCols(game.board)>>

\* The candidate cell of make_move: one step, clamped to the board.
Target(game, direction) ==
    LET row == game.player_position[1]
        col == game.player_position[2]
    IN  IF direction = "up" THEN <<Max(0, row - 1), col>>
        ELSE IF direction = "down" THEN <<Min(NumRows(game.board) - 1, row + 1), col>>
        ELSE IF direction = "left" THEN <<row, Max(0, col - 1)>>
        ELSE <<row, Min(NumCols(game.board) - 1, col + 1)>>

\* MoveResponse with the budget test passing only health or moves equal to 0.
MoveResponseExactZero(game, tile_type, row, col, health_lost, moves_lost) ==
    IF game.health = 0 \/ game.moves = 0
    THEN [tile_type |-> tile_type,
          new_position |-> <<row, col>>,
          health_lost |-> health_lost,
          moves_lost |-> moves_lost,
          end_position |-> game.end_position,
          message |-> "Game over, you lost!"]
    ELSE IF <<row, col>> = game.end_position
    THEN [tile_type |-> tile_type,
          new_position |-> <<row, col>>,
          end_position |-> game.end_position,
          message |-> "You won!"]
    ELSE [tile_type |-> tile_type,
          new_position |-> <<row, col>>,
          remaining_moves |-> game.moves,
          remaining_health |-> game.health,
          health_lost |-> health_lost,
          moves_lost |-> moves_lost,
          end_position |-> game.end_position,
          message |-> "Move successful. You landed in " \o tile_type
                      \o " and lost " \o ToString(health_lost)
                      \o " health and " \o ToString(moves_lost) \o " moves."]

\* MoveResponse with the end-cell test made before the budget test.
MoveResponseWinFirst(game, tile_type, row, col, health_lost, moves_lost) ==
    IF <<row, col>> = game.end_position
    THEN [tile_type |-> tile_type,
          new_position |-> <<row, col>>,
          end_position |-> game.end_position,
          message |-> "You won!"]
    ELSE IF game.health <= 0 \/ game.moves <= 0
    THEN [tile_type |-> tile_type,
          new_position |-> <<row, col>>,
          health_lost |-> health_lost,
          moves_lost |-> moves_lost,
          end_position |-> game.end_position,
          message |-> "Game over, you lost!"]
    ELSE [tile_type |-> tile_type,
          new_position |-> <<row, col>>,
          remaining_moves |-> game.moves,
          remaining_health |-> game.health,
          health_lost |-> health_lost,
          moves_lost |-> moves_lost,
          end_position |-> game.end_position,
          message |-> "Move successful."]

\* The dict make_move returns after a landing.
MoveResponse(game, tile_type, row, col, health_lost, moves_lost) ==
    IF game.health <= 0 \/ game.moves <= 0
    THEN [tile_type |-> tile_type,
          new_position |-> <<row, col>>,
          health_lost |-> health_lost,
          moves_lost |-> moves_lost,
          end_position |-> game.end_position,
          message |-> "Game over, you lost!"]
    ELSE IF <<row, col>> = game.end_position
    THEN [tile_type |-> tile_type,
          new_position |-> <<row, col>>,
          end_position |-> game.end_position,
          message |-> "You won!"]
    ELSE [tile_type |-> tile_type,
          new_position |-> <<row, col>>,
          remaining_moves |-> game.moves,
          remaining_health |-> game.health,
          health_lost |-> health_lost,
          moves_lost |-> moves_lost,
          end_position |-> game.end_position,
          message |-> "Move successful. You landed in " \o tile_type
                      \o " and lost " \o ToString(health_lost)
                      \o " health and " \o ToString(moves_lost) \o " moves."]

\* POST /games/{game_id}/move
make_move(game_id, direction) ==
    /\ request' = [op |-> "make_move", game_id |-> game_id, direction |-> direction]
    /\ IF game_id \notin DOMAIN games
       THEN /\ response' = [error |-> "Game not found"]
            /\ games' = games
       ELSE IF direction \notin Directions
       THEN /\ response' = [error |-> "Invalid move"]
            /\ games' = games
       ELSE LET game == games[game_id]
                row == Target(game, direction)[1]
                col == Target(game, direction)[2]
                tile_type == game.board[row][col]
                health_before == game.health
                moves_before == game.moves
                landed == update_game_state(game, row, col)
                health_lost == health_before - landed.health
                moves_lost == moves_before - landed.moves
            IN  /\ games' = [games EXCEPT ![game_id] = landed]
                /\ response' = MoveResponse(landed, tile_type, row, col,
                                            health_lost, moves_lost)

\* ------------------------------------------------------------ state snapshot
\* The for loop of get_game_state from row i on: the start and end positions
\* it has found when it breaks or runs out of rows.
RECURSIVE ScanPositions(_, _, _, _)
ScanPositions(board, i, start_position, end_position) ==
    IF i >= NumRows(board)
    THEN <<start_position, end_position>>
    ELSE LET sp == IF board[i][0] = "Start" THEN <<i, 0>> ELSE start_position
             ep == IF board[i][NumCols(board) - 1] = "End"
                   THEN <<i, NumCols(board) - 1>> ELSE end_position
         IN  IF sp # None /\ ep # None
             THEN <<sp, ep>>
             ELSE ScanPositions(board, i + 1, sp, ep)

\* GET /games/{game_id}
get_game_state(game_id) ==
    /\ request' = [op |-> "get_game_state", game_id |-> game_id, direction |-> ""]
    /\ games' = games
    /\ IF game_id \notin DOMAIN games
       THEN response' = [error |-> "Game not found"]
       ELSE LET game == games[game_id]
                found == ScanPositions(game.board, 0, None, None)
            IN  response' = [player_position |-> game.player_position,
                             board |-> game.board,
                             health |-> game.health,
                             moves |-> game.moves,
                             start_position |-> found[1],
                             end_position |-> found[2]]

\* ------------------------------------------------------ feasibility checker
\* Steps without the last direction, up.
StepsWithoutUp == << <<0, 1>>, <<0, -1>>, <<1, 0>> >>

\* for dr, dc in [(0, 1), (0, -1), (1, 0), (-1, 0)]
Steps == << <<0, 1>>, <<0, -1>>, <<1, 0>>, <<-1, 0>> >>

\* NeighborBudget with a Blank neighbor costing two moves.
NeighborBudgetTwoMoves(tile_type, health, moves) ==
    IF tile_type = "Speeder" THEN <<health - 5, moves>>
    ELSE IF tile_type = "Lava" THEN <<health - 50, moves - 10>>
    ELSE IF tile_type = "Mud" THEN <<health - 10, moves - 5>>
    ELSE <<health, moves - 2>>

\* The (new_health, new_moves) find_winning_path gives a neighbor of tile_type.
NeighborBudget(tile_type, health, moves) ==
    IF tile_type = "Speeder" THEN <<health - 5, moves>>
    ELSE IF tile_type = "Lava" THEN <<health - 50, moves - 10>>
    ELSE IF tile_type = "Mud" THEN <<health - 10, moves - 5>>
    ELSE <<health, moves - 1>>

\* The for loop over the adjacent tiles, from the i-th step on: the entries it
\* appends to the queue, in order.
RECURSIVE Neighbors(_, _, _, _, _, _)
Neighbors(board, row, col, health, moves, i) ==
    IF i > Len(Steps)
    THEN <<>>
    ELSE LET new_row == row + Steps[i][1]
             new_col == col + Steps[i][2]
         IN  IF /\ 0 <= new_row /\ new_row < NumRows(board)
                /\ 0 <= new_col /\ new_col < NumCols(board)
             THEN LET b == NeighborBudget(board[new_row][new_col], health, moves)
                  IN  << <<(<<new_row, new_col>>), b[1], b[2]>> >>
                      \o Neighbors(board, row, col, health, moves, i + 1)
             ELSE Neighbors(board, row, col, health, moves, i + 1)

\* LoopStep with an entry discarded only when both health and moves are used up.
LoopStepBudgetBoth(board, end, s) ==
    IF s.queue = <<>>
    THEN [s EXCEPT !.ret = "False"]
    ELSE LET pos == Head(s.queue)[1]
             health == Head(s.queue)[2]
             moves == Head(s.queue)[3]
             rest == Tail(s.queue)
         IN  IF pos = end
             THEN [s EXCEPT !.queue = rest, !.ret = "True"]
             ELSE IF health <= 0 /\ moves <= 0
             THEN [s EXCEPT !.queue = rest]
             ELSE IF pos \in s.visited_tiles
             THEN [s EXCEPT !.queue = rest]
             ELSE [s EXCEPT !.queue = rest \o Neighbors(board, pos[1], pos[2],
                                                        health, moves, 1),
                            !.visited_tiles = @ \cup {pos}]

\* LoopStep without the test of visited_tiles.
LoopStepNoVisitedTest(board, end, s) ==
    IF s.queue = <<>>
    THEN [s EXCEPT !.ret = "False"]
    ELSE LET pos == Head(s.queue)[1]
             health == Head(s.queue)[2]
             moves == Head(s.queue)[3]
             rest == Tail(s.queue)
         IN  IF pos = end
             THEN [s EXCEPT !.queue = rest, !.ret = "True"]
             ELSE IF health <= 0 \/ moves <= 0
             THEN [s EXCEPT !.queue = rest]
             ELSE [s EXCEPT !.queue = rest \o Neighbors(board, pos[1], pos[2],
                                                        health, moves, 1),
                            !.visited_tiles = @ \cup {pos}]

\* LoopStep with the budget test made before the end test.
LoopStepBudgetFirst(board, end, s) ==
    IF s.queue = <<>>
    THEN [s EXCEPT !.ret = "False"]
    ELSE LET pos == Head(s.queue)[1]
             health == Head(s.queue)[2]
             moves == Head(s.queue)[3]
             rest == Tail(s.queue)
         IN  IF health <= 0 \/ moves <= 0
             THEN [s EXCEPT !.queue = rest]
             ELSE IF pos = end
             THEN [s EXCEPT !.queue = rest, !.ret = "True"]
             ELSE IF pos \in s.visited_tiles
             THEN [s EXCEPT !.queue = rest]
             ELSE [s EXCEPT !.queue = rest \o Neighbors(board, pos[1], pos[2],
                                                        health, moves, 1),
                            !.visited_tiles = @ \cup {pos}]

\* LoopStep with the budget test made only after the cell is marked visited.
LoopStepMarksExhausted(board, end, s) ==
    IF s.queue = <<>>
    THEN [s EXCEPT !.ret = "False"]
    ELSE LET pos == Head(s.queue)[1]
             health == Head(s.queue)[2]
             moves == Head(s.queue)[3]
             rest == Tail(s.queue)
         IN  IF pos = end
             THEN [s EXCEPT !.queue = rest, !.ret = "True"]
             ELSE IF pos \in s.visited_tiles
             THEN [s EXCEPT !.queue = rest]
             ELSE IF health <= 0 \/ moves <= 0
             THEN [s EXCEPT !.queue = rest, !.visited_tiles = @ \cup {pos}]
             ELSE [s EXCEPT !.queue = rest \o Neighbors(board, pos[1], pos[2],
                                                        health, moves, 1),
                            !.visited_tiles = @ \cup {pos}]

\* One test of `while queue` and, when the queue is not empty, one pass of
\* the loop body.  s = [queue, visited_tiles, ret]; ret is "running" until the
\* function returns, then "True" or "False".
LoopStep(board, end, s) ==
    IF s.queue = <<>>
    THEN [s EXCEPT !.ret = "False"]
    ELSE LET pos == Head(s.queue)[1]
             health == Head(s.queue)[2]
             moves == Head(s.queue)[3]
             rest == Tail(s.queue)
         IN  IF pos = end
             THEN [s EXCEPT !.queue = rest, !.ret = "True"]
             ELSE IF health <= 0 \/ moves <= 0
             THEN [s EXCEPT !.queue = rest]
             ELSE IF pos \in s.visited_tiles
             THEN [s EXCEPT !.queue = rest]
             ELSE [s EXCEPT !.queue = rest \o Neighbors(board, pos[1], pos[2],
                                                        health, moves, 1),
                            !.visited_tiles = @ \cup {pos}]

\* visited_tiles = set(); queue = deque([(start, health, moves)])
LoopEntry(start, health, moves) ==
    [queue |-> << <<start, health, moves>> >>, visited_tiles |-> {}, ret |-> "running"]

RECURSIVE RunLoop(_, _, _)
RunLoop(board, end, s) ==
    IF s.ret # "running" THEN s ELSE RunLoop(board, end, LoopStep(board, end, s))

\* find_winning_path(board, start, end, health, moves)
find_winning_path(board, start, end, health, moves) ==
    RunLoop(board, end, LoopEntry(start, health, moves)).ret = "True"

\* GET /games/{game_id}/winning_path
check_winning_path(game_id) ==
    /\ request' = [op |-> "check_winning_path", game_id |-> game_id, direction |-> ""]
    /\ games' = games
    /\ IF game_id \notin DOMAIN games
       THEN response' = [error |-> "Game not found"]
       ELSE LET game == games[game_id]
                winning_path_exists ==
                    find_winning_path(game.board, game.player_position,
                                      game.end_position, game.health, game.moves)
            IN  response' = [winning_path_exists |-> winning_path_exists]

\* ------------------------------------------------------------ specifications
Cells == (0..(Rows - 1)) \X (0..(Cols - 1))
TileKinds == {"Blank", "Start", "End", "Speeder", "Lava", "Mud"}

NoRequest == [op |-> "", game_id |-> "", direction |-> ""]
NoResponse == [status |-> "no request yet"]

\* Two requests the server's thread pool runs at the same time.
Threads == {"a", "b"}

\* make_move's local variables before the handler has assigned them.
NoLocal ==
    [direction |-> "", row |-> 0, col |-> 0, tile_type |-> "",
     health_before |-> 0, moves_before |-> 0, loaded |-> 0,
     health_lost |-> 0, moves_lost |-> 0, response |-> NoResponse]

\* The hazard counts random.randint can draw for which initialize_board
\* returns: the board has a Blank cell for every tile to place.
TileCounts ==
    {t \in (MinCount..MaxCount) \X (MinCount..MaxCount) \X (MinCount..MaxCount) :
        t[1] + t[2] + t[3] <= Rows * Cols}

\* The direction strings a move request is tried with.
DirectionInputs == Directions \cup {"jump"}

\* Spec: one game, created on any board the generator yields on its streams.
Init ==
    /\ games = <<>>
    /\ request = NoRequest
    /\ response = NoResponse
    /\ nreq = 0
    /\ args = None
    /\ queue = <<>>
    /\ visited_tiles = {}
    /\ ret = "idle"
    /\ dropped = {}
    /\ enqueued = Len(queue)
    /\ pc = [t \in Threads |-> "idle"]
    /\ local = [t \in Threads |-> NoLocal]

CreateGame ==
    /\ DOMAIN games = {}
    /\ \E start_row \in 0..(Rows - 1), end_row \in 0..(Rows - 1),
          tile_counts \in TileCounts, seed \in 0..(NumSeeds - 1) :
            create_game(start_row, end_row, tile_counts, seed)
    /\ UNCHANGED <<nreq, bfsvars, racevars>>

MakeMove ==
    /\ nreq < MaxSteps
    /\ \E game_id \in DOMAIN games, direction \in DirectionInputs :
            make_move(game_id, direction)
    /\ nreq' = nreq + 1
    /\ UNCHANGED <<bfsvars, racevars>>

GetGameState ==
    /\ \E game_id \in DOMAIN games : get_game_state(game_id)
    /\ UNCHANGED <<nreq, bfsvars, racevars>>

CheckWinningPath ==
    /\ \E game_id \in DOMAIN games : check_winning_path(game_id)
    /\ UNCHANGED <<nreq, bfsvars, racevars>>

Next == CreateGame \/ MakeMove \/ GetGameState \/ CheckWinningPath

Spec == Init /\ [][Next]_vars

\* SpecRegistry: several games and requests for ids the registry may not hold;
\* the generator's draws are taken from two fixed settings.
GameIds == {ToString(i) : i \in 0..MaxGames}

RegistryDraws ==
    { <<0, Rows - 1, <<MaxCount, MaxCount, MaxCount>>, 1>>,
      <<Rows - 1, 0, <<MinCount, MinCount, MinCount>>, 0>> }

RegCreateGame ==
    /\ Cardinality(DOMAIN games) < MaxGames
    /\ \E d \in RegistryDraws : create_game(d[1], d[2], d[3], d[4])
    /\ UNCHANGED <<nreq, bfsvars, racevars>>

RegMakeMove ==
    /\ nreq < MaxRegistrySteps
    /\ \E game_id \in GameIds, direction \in DirectionInputs :
            make_move(game_id, direction)
    /\ nreq' = nreq + 1
    /\ UNCHANGED <<bfsvars, racevars>>

RegGetGameState ==
    /\ \E game_id \in GameIds : get_game_state(game_id)
    /\ UNCHANGED <<nreq, bfsvars, racevars>>

RegCheckWinningPath ==
    /\ \E game_id \in GameIds : check_winning_path(game_id)
    /\ UNCHANGED <<nreq, bfsvars, racevars>>

RegNext == RegCreateGame \/ RegMakeMove \/ RegGetGameState \/ RegCheckWinningPath

SpecRegistry == Init /\ [][RegNext]_vars

\* SpecBFS: find_winning_path run one loop pass at a time on bounded arguments:
\* an all-Blank board or one with a single cell of another kind, any start,
\* an end in the last column, budgets around zero and up to the bounds.
BoardInputs ==
    {BlankBoard} \cup
    {[BlankBoard EXCEPT ![cell[1]][cell[2]] = kind] :
        cell \in Cells, kind \in TileKinds \ {"Blank"}}

HealthInputs == {0, 5, MaxHealthIn}
MovesInputs == (0 - 1)..MaxMovesIn

ArgInputs ==
    [board : BoardInputs, start : Cells,
     end : {cell \in Cells : cell[2] = Cols - 1},
     health : HealthInputs, moves : MovesInputs]

BFSInit ==
    /\ games = <<>>
    /\ request = NoRequest
    /\ response = NoResponse
    /\ nreq = 0
    /\ args \in ArgInputs
    /\ queue = LoopEntry(args.start, args.health, args.moves).queue
    /\ visited_tiles = LoopEntry(args.start, args.health, args.moves).visited_tiles
    /\ ret = LoopEntry(args.start, args.health, args.moves).ret
    /\ dropped = {}
    /\ enqueued = Len(queue)
    /\ pc = [t \in Threads |-> "idle"]
    /\ local = [t \in Threads |-> NoLocal]

LoopPass ==
    /\ ret = "running"
    /\ LET s == LoopStep(args.board, args.end,
                         [queue |-> queue, visited_tiles |-> visited_tiles, ret |-> ret])
       IN  /\ queue' = s.queue
           /\ visited_tiles' = s.visited_tiles
           /\ ret' = s.ret
    /\ dropped' = IF /\ queue # <<>>
                     /\ Head(queue)[1] # args.end
                     /\ Head(queue)[2] > 0 /\ Head(queue)[3] > 0
                     /\ Head(queue)[1] \in visited_tiles
                  THEN dropped \cup {Head(queue)}
                  ELSE dropped
    /\ enqueued' = IF queue = <<>>
                   THEN enqueued
                   ELSE enqueued + Len(queue') - Len(Tail(queue))
    /\ UNCHANGED <<args, appvars, racevars>>

BFSNext == LoopPass

SpecBFS == BFSInit /\ [][BFSNext]_vars

\* ------------------------------------------------- two moves on one game
\* make_move is a plain `def`, which the server runs in a thread pool, and
\* the registry has no lock: the statements of two calls interleave.  Each
\* step below is one read or one write of an attribute of the game; the
\* assignments `game.health -= n` and `game.moves -= n` are a read followed
\* by a write.  Both requests are for game "0".
RaceGame == "0"

\* The types update_game_state has a branch for.
ChargedTiles == {"Blank", "Speeder", "Lava", "Mud"}

At(t, label) == pc[t] = label

Goto(t, label) == pc' = [pc EXCEPT ![t] = label]

\* game = games[game_id]; row, col = game.player_position; the direction
\* branches; return {"error": "Invalid move"}
ReadPosition(t, direction) ==
    /\ At(t, "idle")
    /\ RaceGame \in DOMAIN games
    /\ IF direction \in Directions
       THEN /\ local' = [local EXCEPT
                    ![t].direction = direction,
                    ![t].row = Target(games[RaceGame], direction)[1],
                    ![t].col = Target(games[RaceGame], direction)[2]]
            /\ Goto(t, "health_before")
       ELSE /\ local' = [local EXCEPT ![t].direction = direction,
                                      ![t].response = [error |-> "Invalid move"]]
            /\ Goto(t, "done")
    /\ UNCHANGED <<appvars, bfsvars>>

\* tile_type = game.board[row][col]; health_before = game.health
ReadHealthBefore(t) ==
    /\ At(t, "health_before")
    /\ local' = [local EXCEPT
            ![t].tile_type = games[RaceGame].board[local[t].row][local[t].col],
            ![t].health_before = games[RaceGame].health]
    /\ Goto(t, "moves_before")
    /\ UNCHANGED <<appvars, bfsvars>>

\* moves_before = game.moves; update_game_state's choice of a branch
ReadMovesBefore(t) ==
    /\ At(t, "moves_before")
    /\ local' = [local EXCEPT ![t].moves_before = games[RaceGame].moves]
    /\ IF local[t].tile_type \in ChargedTiles
       THEN Goto(t, "load_health")
       ELSE Goto(t, "position")
    /\ UNCHANGED <<appvars, bfsvars>>

\* game.health -= n: the read
LoadHealth(t) ==
    /\ At(t, "load_health")
    /\ local' = [local EXCEPT ![t].loaded = games[RaceGame].health]
    /\ Goto(t, "store_health")
    /\ UNCHANGED <<appvars, bfsvars>>

\* game.health -= n: the write
StoreHealth(t) ==
    /\ At(t, "store_health")
    /\ games' = [games EXCEPT ![RaceGame].health =
                    local[t].loaded + LandingEffect(local[t].tile_type)[1]]
    /\ Goto(t, "load_moves")
    /\ UNCHANGED <<request, response, nreq, bfsvars, local>>

\* game.moves -= n: the read
LoadMoves(t) ==
    /\ At(t, "load_moves")
    /\ local' = [local EXCEPT ![t].loaded = games[RaceGame].moves]
    /\ Goto(t, "store_moves")
    /\ UNCHANGED <<appvars, bfsvars>>

\* game.moves -= n: the write
StoreMoves(t) ==
    /\ At(t, "store_moves")
    /\ games' = [games EXCEPT ![RaceGame].moves =
                    local[t].loaded + LandingEffect(local[t].tile_type)[2]]
    /\ Goto(t, "position")
    /\ UNCHANGED <<request, response, nreq, bfsvars, local>>

\* game.player_position = (row, col)
WritePosition(t) ==
    /\ At(t, "position")
    /\ games' = [games EXCEPT ![RaceGame].player_position =
                    <<local[t].row, local[t].col>>]
    /\ Goto(t, "health_lost")
    /\ UNCHANGED <<request, response, nreq, bfsvars, local>>

\* health_lost = health_before - game.health
ReadHealthLost(t) ==
    /\ At(t, "health_lost")
    /\ local' = [local EXCEPT
            ![t].health_lost = local[t].health_before - games[RaceGame].health]
    /\ Goto(t, "moves_lost")
    /\ UNCHANGED <<appvars, bfsvars>>

\* moves_lost = moves_before - game.moves
ReadMovesLost(t) ==
    /\ At(t, "moves_lost")
    /\ local' = [local EXCEPT
            ![t].moves_lost = local[t].moves_before - games[RaceGame].moves]
    /\ Goto(t, "respond")
    /\ UNCHANGED <<appvars, bfsvars>>

\* The outcome tests and the dict returned.  The reads of health and moves
\* they make change nothing in the game and are taken as one step.
Respond(t) ==
    /\ At(t, "respond")
    /\ local' = [local EXCEPT ![t].response =
                    MoveResponse(games[RaceGame], local[t].tile_type,
                                 local[t].row, local[t].col,
                                 local[t].health_lost, local[t].moves_lost)]
    /\ Goto(t, "done")
    /\ UNCHANGED <<appvars, bfsvars>>

RaceCreateGame ==
    /\ DOMAIN games = {}
    /\ \E start_row \in 0..(Rows - 1), end_row \in 0..(Rows - 1),
          tile_counts \in TileCounts, seed \in 0..(NumSeeds - 1) :
            create_game(start_row, end_row, tile_counts, seed)
    /\ UNCHANGED <<nreq, bfsvars, racevars>>

RaceReadPosition ==
    \E t \in Threads, direction \in DirectionInputs : ReadPosition(t, direction)
RaceReadHealthBefore == \E t \in Threads : ReadHealthBefore(t)
RaceReadMovesBefore == \E t \in Threads : ReadMovesBefore(t)
RaceLoadHealth == \E t \in Threads : LoadHealth(t)
RaceStoreHealth == \E t \in Threads : StoreHealth(t)
RaceLoadMoves == \E t \in Threads : LoadMoves(t)
RaceStoreMoves == \E t \in Threads : StoreMoves(t)
RaceWritePosition == \E t \in Threads : WritePosition(t)
RaceReadHealthLost == \E t \in Threads : ReadHealthLost(t)
RaceReadMovesLost == \E t \in Threads : ReadMovesLost(t)
RaceRespond == \E t \in Threads : Respond(t)

RaceNext ==
    \/ RaceCreateGame
    \/ RaceReadPosition
    \/ RaceReadHealthBefore
    \/ RaceReadMovesBefore
    \/ RaceLoadHealth
    \/ RaceStoreHealth
    \/ RaceLoadMoves
    \/ RaceStoreMoves
    \/ RaceWritePosition
    \/ RaceReadHealthLost
    \/ RaceReadMovesLost
    \/ RaceRespond

SpecRace == Init /\ [][RaceNext]_vars

\* ------------------------------------------------------------------ claims
\* The state is the one a make_move request left after a landing: the request
\* named a game of the registry and one of the four directions.
MoveLanded ==
    /\ request.op = "make_move"
    /\ request.game_id \in DOMAIN games
    /\ request.direction \in {"up", "down", "left", "right"}

IsLost(r) == "message" \in DOMAIN r /\ r.message = "Game over, you lost!"
IsWon(r) == "message" \in DOMAIN r /\ r.message = "You won!"
IsContinuing(r) == "remaining_moves" \in DOMAIN r /\ "remaining_health" \in DOMAIN r

\* C1: after every valid move, the outcome is Lost when the landing left
\* health <= 0 or moves <= 0, also on the end cell; it is Won exactly when the
\* player is on the end cell with health > 0 and moves > 0; it is Continuing
\* exactly in the remaining case.
C1_LossTakesPriority ==
    MoveLanded =>
        LET g == games[request.game_id]
            exhausted == g.health <= 0 \/ g.moves <= 0
            at_end == g.player_position = g.end_position
        IN  /\ exhausted => IsLost(response)
            /\ IsWon(response) <=> (at_end /\ g.health > 0 /\ g.moves > 0)
            /\ IsContinuing(response) <=> (~exhausted /\ ~at_end)
            /\ IsLost(response) \/ IsWon(response) \/ IsContinuing(response)

\* C1 witness: a move landed the player on the end cell with the budget
\* exhausted and was answered Lost.
C1_LostOnEndCell ==
    /\ MoveLanded
    /\ games[request.game_id].player_position = games[request.game_id].end_position
    /\ response.tile_type = "End"
    /\ games[request.game_id].health <= 0
    /\ IsLost(response)

\* C2: a move request with a direction other than up, down, left, right on a
\* game of the registry is answered "Invalid move", and a move request for an
\* id the registry does not hold is answered "Game not found"; either leaves
\* every game of the registry as it was.
C2_ErrorsChangeNothing ==
    [][ (request'.op = "make_move" /\ nreq' = nreq + 1) =>
            /\ (request'.game_id \notin DOMAIN games) =>
                    /\ response' = [error |-> "Game not found"]
                    /\ games' = games
            /\ (/\ request'.game_id \in DOMAIN games
                /\ request'.direction \notin {"up", "down", "left", "right"}) =>
                    /\ response' = [error |-> "Invalid move"]
                    /\ games' = games ]_vars

\* C2 witness: a request with an unknown direction for a game that exists and
\* has been moved before was answered "Invalid move".
C2_InvalidMoveAnswered ==
    /\ request.op = "make_move"
    /\ request.game_id \in DOMAIN games
    /\ request.direction = "jump"
    /\ games[request.game_id].moves < InitMoves
    /\ response = [error |-> "Invalid move"]

\* Every game's player is on the board.
OnBoard ==
    \A id \in DOMAIN games :
        /\ 0 <= games[id].player_position[1]
        /\ games[id].player_position[1] <= Rows - 1
        /\ 0 <= games[id].player_position[2]
        /\ games[id].player_position[2] <= Cols - 1

Abs(n) == IF n < 0 THEN 0 - n ELSE n

\* C3: the player position always satisfies 0 <= row <= rows-1 and
\* 0 <= col <= cols-1, and a valid move changes it by at most one cell, along
\* one axis only.
C3_ClampedSteps ==
    /\ []OnBoard
    /\ [][ (nreq' = nreq + 1 /\ request'.game_id \in DOMAIN games) =>
             LET old == games[request'.game_id].player_position
                 new == games'[request'.game_id].player_position
             IN  /\ Abs(new[1] - old[1]) + Abs(new[2] - old[2]) <= 1
                 /\ request'.direction \in {"up", "down"} => new[2] = old[2]
                 /\ request'.direction \in {"left", "right"} => new[1] = old[1] ]_vars

\* C3 witness: the first move of a game was "left", off the board from the
\* start cell in column 0, and the player is still in column 0.
C3_ClampedAtEdge ==
    /\ MoveLanded
    /\ nreq = 1
    /\ request.direction = "left"
    /\ games[request.game_id].player_position[2] = 0

\* The effect table of the tile kinds.
TileEffect(kind) ==
    CASE kind = "Blank" -> <<0, -1>>
      [] kind = "Speeder" -> <<-5, 0>>
      [] kind = "Lava" -> <<-50, -10>>
      [] kind = "Mud" -> <<-10, -5>>
      [] kind \in {"Start", "End"} -> <<0, 0>>

\* C4: a landing changes (health, moves) by exactly the effect of the cell
\* landed on (Blank (0,-1), Speeder (-5,0), Lava (-50,-10), Mud (-10,-5), Start
\* and End (0,0)) and sets the player position to that cell; the health_lost
\* and moves_lost a move reports are the negated effect.
C4_LandingEffects ==
    [][ (/\ nreq' = nreq + 1
         /\ request'.game_id \in DOMAIN games
         /\ request'.direction \in {"up", "down", "left", "right"}) =>
            LET old == games[request'.game_id]
                new == games'[request'.game_id]
                pos == response'.new_position
                effect == TileEffect(old.board[pos[1]][pos[2]])
            IN  /\ new.health = old.health + effect[1]
                /\ new.moves = old.moves + effect[2]
                /\ new.player_position = pos
                /\ response'.tile_type = old.board[pos[1]][pos[2]]
                /\ "health_lost" \in DOMAIN response' =>
                        response'.health_lost = 0 - effect[1]
                /\ "moves_lost" \in DOMAIN response' =>
                        response'.moves_lost = 0 - effect[2] ]_vars

\* C4 witness: a move landed on a Mud cell and reported 10 health and 5 moves
\* lost.
C4_LandedOnMud ==
    /\ MoveLanded
    /\ response.tile_type = "Mud"
    /\ response.health_lost = 10
    /\ response.moves_lost = 5

CellsOfKind(board, kind) == {cell \in Cells : board[cell[1]][cell[2]] = kind}

\* C5: every game's board has exactly one Start cell, in column 0, and exactly
\* one End cell, in the last column; every other cell is Blank, Speeder, Lava
\* or Mud; end_position is the End cell; a game just created has its player on
\* the Start cell.
C5_BoardLayout ==
    /\ \A id \in DOMAIN games :
        LET g == games[id]
        IN  /\ DOMAIN g.board = 0..(Rows - 1)
            /\ \A r \in DOMAIN g.board : DOMAIN g.board[r] = 0..(Cols - 1)
            /\ Cardinality(CellsOfKind(g.board, "Start")) = 1
            /\ Cardinality(CellsOfKind(g.board, "End")) = 1
            /\ \A cell \in CellsOfKind(g.board, "Start") : cell[2] = 0
            /\ \A cell \in CellsOfKind(g.board, "End") : cell[2] = Cols - 1
            /\ \A cell \in Cells :
                    g.board[cell[1]][cell[2]] \in
                        {"Start", "End", "Blank", "Speeder", "Lava", "Mud"}
            /\ CellsOfKind(g.board, "End") = {g.end_position}
    /\ "game_id" \in DOMAIN response =>
            CellsOfKind(games[response.game_id].board, "Start")
                = {games[response.game_id].player_position}

\* C5 witness: a game whose generated board holds all three hazard kinds has
\* been played away from its Start cell.
C5_PlayedBoard ==
    \E id \in DOMAIN games :
        /\ CellsOfKind(games[id].board, "Start") # {games[id].player_position}
        /\ \A kind \in {"Speeder", "Lava", "Mud"} :
               CellsOfKind(games[id].board, kind) # {}

\* The arguments of the find_winning_path call under way.
Exhausted == args.health <= 0 \/ args.moves <= 0

\* C6: find_winning_path returns True whenever start = end, for every health
\* and moves, also when health <= 0 or moves <= 0.
C6_TrueAtEnd ==
    (args # None /\ args.start = args.end) =>
        /\ ret # "False"
        /\ find_winning_path(args.board, args.start, args.end, args.health, args.moves)

\* C6 witness: the call returned True with start = end, no health and no
\* moves left.
C6_TrueWithNothingLeft ==
    /\ args # None
    /\ args.start = args.end
    /\ args.health <= 0
    /\ args.moves < 0
    /\ ret = "True"

\* C7: find_winning_path returns False whenever start # end and health <= 0 or
\* moves <= 0 at the start; a popped entry with health <= 0 or moves <= 0 on
\* a cell other than the end is dropped: nothing is appended to the queue and
\* the cell is not marked visited.
C7_ExhaustedNotExpanded ==
    /\ [](args # None =>
            /\ (args.start # args.end /\ Exhausted) =>
                    /\ ret # "True"
                    /\ visited_tiles = {}
                    /\ ~find_winning_path(args.board, args.start, args.end,
                                          args.health, args.moves))
    /\ [][ (/\ ret = "running"
            /\ queue # <<>>
            /\ Head(queue)[1] # args.end
            /\ (Head(queue)[2] <= 0 \/ Head(queue)[3] <= 0)) =>
                /\ queue' = Tail(queue)
                /\ visited_tiles' = visited_tiles
                /\ ret' = "running" ]_vars

\* C7 witness: the call returned False for a start other than the end with
\* neither health nor moves left, without visiting a cell.
C7_FalseWithNothingLeft ==
    /\ args # None
    /\ args.start # args.end
    /\ args.health <= 0
    /\ args.moves <= 0
    /\ ret = "False"
    /\ visited_tiles = {}

Manhattan(a, b) == Abs(a[1] - b[1]) + Abs(a[2] - b[2])

\* C8: on an all-Blank board with health > 0, find_winning_path returns True
\* if and only if start = end or the Manhattan distance from start to end is
\* at most moves.
C8_AllBlankDistance ==
    (args # None /\ args.board = BlankBoard /\ args.health > 0) =>
        LET near == \/ args.start = args.end
                    \/ Manhattan(args.start, args.end) <= args.moves
        IN  /\ ret = "True" => near
            /\ ret = "False" => ~near
            /\ find_winning_path(args.board, args.start, args.end,
                                 args.health, args.moves) <=> near

\* C8 witness: on the all-Blank board the call returned True for an end at
\* Manhattan distance 4 with exactly 4 moves.
C8_ReachedWithLastMove ==
    /\ args # None
    /\ args.board = BlankBoard
    /\ args.health > 0
    /\ Manhattan(args.start, args.end) = 4
    /\ args.moves = 4
    /\ ret = "True"

\* The entry for stepping from entry e onto cell, charged the checker's cost
\* of that cell.
Arrive(board, e, cell) ==
    <<cell, NeighborBudget(board[cell[1]][cell[2]], e[2], e[3])[1],
            NeighborBudget(board[cell[1]][cell[2]], e[2], e[3])[2]>>

\* The entries one in-bounds axis step away from an entry of S that is not on
\* the end cell and has health > 0 and moves > 0.
StepsFrom(board, end, S) ==
    UNION {{Arrive(board, e, cell) : cell \in {c \in Cells : Manhattan(c, e[1]) = 1}} :
            e \in {x \in S : x[1] # end /\ x[2] > 0 /\ x[3] > 0}}

\* Every entry some path of such steps arrives with, from the entries of S.
RECURSIVE Arrivals(_, _, _)
Arrivals(board, end, S) ==
    LET T == S \cup StepsFrom(board, end, S)
    IN  IF T = S THEN S ELSE Arrivals(board, end, T)

\* Some path of in-bounds axis steps leads from start to end with health > 0
\* and moves > 0 at every cell before the end.
PathWithinBudget ==
    \E e \in Arrivals(args.board, args.end,
                      {<<args.start, args.health, args.moves>>}) : e[1] = args.end

\* C9: the checker under-approximates reachability because visited_tiles holds
\* positions only: whenever it returns False although a path within budget
\* exists, it has discarded an entry with health and moves left because the
\* entry's cell was already visited; and such a call exists.
C9_FalseOnlyByDrop ==
    (args # None /\ ret = "False" /\ PathWithinBudget) => dropped # {}

\* C9 witness: the call returned False although a path within budget exists,
\* after discarding an entry with health and moves left on a visited cell.
C9_FeasibleButFalse ==
    /\ args # None
    /\ ret = "False"
    /\ PathWithinBudget
    /\ \E e \in dropped : e[2] > 0 /\ e[3] > 0 /\ e[1] \in visited_tiles

\* The ids "0" .. "n-1".
FirstIds(n) == {ToString(i) : i \in 0..(n - 1)}

\* C10: the registry's keys are "0" .. "n-1" for the n games created so far;
\* a create answers with an id the registry did not hold, adds exactly that
\* key, and leaves every game created before as it was.
C10_FreshIds ==
    /\ [](DOMAIN games = FirstIds(Cardinality(DOMAIN games)))
    /\ [][ request'.op = "create_game" =>
             /\ response'.game_id \notin DOMAIN games
             /\ response'.game_id = ToString(Cardinality(DOMAIN games))
             /\ DOMAIN games' = DOMAIN games \cup {response'.game_id}
             /\ Cardinality(DOMAIN games') = Cardinality(DOMAIN games) + 1
             /\ \A id \in DOMAIN games : games'[id] = games[id] ]_vars

\* C10 witness: a second game was created, with id "1", after the first game
\* had been played, and the first game still is as it was played.
C10_SecondGameCreated ==
    /\ request.op = "create_game"
    /\ response = [game_id |-> "1"]
    /\ DOMAIN games = {"0", "1"}
    /\ games["0"].moves < InitMoves
    /\ games["1"].moves = InitMoves

\* The games one valid move away from game g.
MovesFrom(g) ==
    {update_game_state(g, Target(g, d)[1], Target(g, d)[2]) : d \in Directions}

\* The game is as a move answered "You won!" leaves it.
WonGame(g) ==
    IsWon(MoveResponse(g, g.board[g.player_position[1]][g.player_position[2]],
                       g.player_position[1], g.player_position[2], 0, 0))

\* Some sequence of valid moves from a game of `frontier` ends with a move
\* answered "You won!".  Games with health <= 0 or moves <= 0 are not
\* followed further: no landing effect is positive, so no later move
\* of such a game is answered "You won!".
RECURSIVE WinFrom(_, _)
WinFrom(seen, frontier) ==
    IF frontier = {}
    THEN FALSE
    ELSE LET next == UNION {MovesFrom(g) : g \in frontier}
             done == seen \cup frontier
         IN  IF \E g \in next : WonGame(g)
             THEN TRUE
             ELSE WinFrom(done, {g \in next : g.health > 0 /\ g.moves > 0} \ done)

CanWin(g) == WinFrom({}, {g})

\* The state is the one a winning_path request for a game of the registry left.
PathChecked ==
    /\ request.op = "check_winning_path"
    /\ request.game_id \in DOMAIN games

\* C11: whenever the winning_path operation reports winning_path_exists = true
\* for a game, some finite sequence of valid moves from the game's state ends
\* with a move answered Won, also in states reached after a Lost answer.
C11_OracleSound ==
    (PathChecked /\ response.winning_path_exists) => CanWin(games[request.game_id])

\* The same for the games that have health > 0 and moves > 0.
C11_SoundWhileLive ==
    (/\ PathChecked
     /\ response.winning_path_exists
     /\ games[request.game_id].health > 0
     /\ games[request.game_id].moves > 0) => CanWin(games[request.game_id])

\* The entries the loop pass appended to the queue.
Appended == SubSeq(queue', Len(queue), Len(queue'))

\* The loop pass expanded the popped entry: it marked its cell visited and
\* appended the cell's neighbors.
Expanded == queue # <<>> /\ visited_tiles' # visited_tiles

\* C12: for every tile kind (Blank, Speeder, Lava, Mud, Start, End), the
\* (health, moves) adjustment the path search applies when it enqueues a
\* neighbor of that kind equals the landing effect update_game_state applies
\* when the player lands on a cell of that kind.
C12_SearchChargesLandingEffect ==
    [][ Expanded =>
            \A i \in 1..Len(Appended) :
                LET e == Appended[i]
                    effect == LandingEffect(args.board[e[1][1]][e[1][2]])
                IN  /\ e[2] = Head(queue)[2] + effect[1]
                    /\ e[3] = Head(queue)[3] + effect[2] ]_vars

\* The same for the neighbors of the kinds Blank, Speeder, Lava and Mud.
C12_SearchChargesHazards ==
    [][ Expanded =>
            \A i \in 1..Len(Appended) :
                LET e == Appended[i]
                    kind == args.board[e[1][1]][e[1][2]]
                    effect == LandingEffect(kind)
                IN  kind \notin {"Start", "End"} =>
                        /\ e[2] = Head(queue)[2] + effect[1]
                        /\ e[3] = Head(queue)[3] + effect[2] ]_vars

\* C13: whenever find_winning_path returns True with start # end, there is a
\* path of in-bounds axis-adjacent cells from start to end such that, charging
\* each stepped-onto cell the search's cost, health and moves are both > 0 at
\* start and at every intermediate cell (the budget on arrival at end may be
\* <= 0).
C13_TrueHasPath ==
    (args # None /\ ret = "True" /\ args.start # args.end) => PathWithinBudget

\* C13 witness: the search returned True with start # end, and every path
\* within budget arrives at end with health <= 0 or moves <= 0.
C13_TrueWithSpentArrival ==
    /\ args # None
    /\ ret = "True"
    /\ args.start # args.end
    /\ PathWithinBudget
    /\ \A e \in Arrivals(args.board, args.end,
                         {<<args.start, args.health, args.moves>>}) :
            e[1] = args.end => (e[2] <= 0 \/ e[3] <= 0)

\* The calls of BFSInit whose end is the last cell of the board.
BFSLiveInit == BFSInit /\ args.end = <<Rows - 1, Cols - 1>>

\* The loop as one thread runs it: a pass that can be made is made.
SpecBFSLive == BFSLiveInit /\ [][BFSNext]_vars /\ WF_vars(LoopPass)

\* C14: the search always terminates on every board and budget: each cell is
\* marked visited and expanded at most once, so at most 1 + 4*rows*cols
\* entries are ever enqueued, and it returns False exactly when the queue
\* empties without popping the end cell.
C14_Terminates ==
    /\ <>(ret # "running")
    /\ [](enqueued <= 1 + 4 * Rows * Cols)
    /\ [][ /\ Expanded => /\ Head(queue)[1] \notin visited_tiles
                          /\ visited_tiles' = visited_tiles \cup {Head(queue)[1]}
           /\ ~Expanded => /\ visited_tiles' = visited_tiles
                           /\ enqueued' = enqueued
           /\ ret' = "False" <=> queue = <<>>
           /\ ret' = "True" <=> (queue # <<>> /\ Head(queue)[1] = args.end) ]_vars

\* C14 witness: the search returned False on an empty queue after it expanded
\* five cells, each once, and enqueued more entries than the board has cells.
C14_FalseAfterSweep ==
    /\ args # None
    /\ ret = "False"
    /\ queue = <<>>
    /\ Cardinality(visited_tiles) = 5
    /\ enqueued > Rows * Cols

\* C15: a game is mutated only by a valid move's landing: get_game_state and
\* check_winning_path leave player position, health, moves, board and end
\* position unchanged, and no operation (a move included) ever changes a
\* game's board or end position, or any field of a different game.
C15_Frame ==
    [][ /\ \A id \in DOMAIN games :
                /\ id \in DOMAIN games'
                /\ games'[id].board = games[id].board
                /\ games'[id].end_position = games[id].end_position
                /\ games'[id] # games[id] =>
                        /\ request'.op = "make_move"
                        /\ request'.game_id = id
                        /\ request'.direction \in {"up", "down", "left", "right"}
                        /\ "error" \notin DOMAIN response'
        /\ request'.op \in {"get_game_state", "check_winning_path"} =>
                games' = games ]_vars

\* C15 witness: of two games one was moved off its start cell and the other is
\* as created, and the last request read the moved game's state.
C15_OneOfTwoMoved ==
    /\ DOMAIN games = {"0", "1"}
    /\ request.op = "get_game_state"
    /\ request.game_id = "0"
    /\ games["0"].board[games["0"].player_position[1]]
                       [games["0"].player_position[2]] # "Start"
    /\ games["0"].moves < InitMoves
    /\ games["1"].board[games["1"].player_position[1]]
                       [games["1"].player_position[2]] = "Start"
    /\ games["1"].health = InitHealth
    /\ games["1"].moves = InitMoves

\* C16: across any sequence of operations on a game, health and moves never
\* increase: health is at most the health and moves at most the moves a game
\* is created with (200 and 450 in the source) in every reachable state, and
\* the health_lost and moves_lost of every move are >= 0.
C16_NeverIncrease ==
    /\ [](\A id \in DOMAIN games : /\ games[id].health <= InitHealth
                                   /\ games[id].moves <= InitMoves)
    /\ []( /\ "health_lost" \in DOMAIN response => response.health_lost >= 0
           /\ "moves_lost" \in DOMAIN response => response.moves_lost >= 0 )
    /\ [][ \A id \in DOMAIN games : /\ games'[id].health <= games[id].health
                                    /\ games'[id].moves <= games[id].moves ]_vars

\* C16 witness: a move on a Speeder cell reported 5 health and no moves lost,
\* and the game has less health than it was created with.
C16_LostHealthOnSpeeder ==
    /\ MoveLanded
    /\ response.tile_type = "Speeder"
    /\ response.health_lost = 5
    /\ response.moves_lost = 0
    /\ games[request.game_id].health < InitHealth

\* The cell one step in `direction` from the player's cell, off the grid or on.
Unclamped(game, direction) ==
    LET row == game.player_position[1]
        col == game.player_position[2]
    IN  CASE direction = "up" -> <<row - 1, col>>
          [] direction = "down" -> <<row + 1, col>>
          [] direction = "left" -> <<row, col - 1>>
          [] direction = "right" -> <<row, col + 1>>

\* C17: a valid move that would step off the grid is not an error: the player
\* position is left unchanged, the landing effect of the tile the player
\* stands on is applied again to health and moves, and the outcome is
\* classified by the normal Lost/Won/Continuing rules.
C17_OffGridMove ==
    [][ (/\ nreq' = nreq + 1
         /\ request'.game_id \in DOMAIN games
         /\ request'.direction \in {"up", "down", "left", "right"}
         /\ Unclamped(games[request'.game_id], request'.direction) \notin Cells) =>
            LET old == games[request'.game_id]
                new == games'[request'.game_id]
                pos == old.player_position
                effect == TileEffect(old.board[pos[1]][pos[2]])
                lost == new.health <= 0 \/ new.moves <= 0
            IN  /\ "error" \notin DOMAIN response'
                /\ new.player_position = pos
                /\ response'.new_position = pos
                /\ new.health = old.health + effect[1]
                /\ new.moves = old.moves + effect[2]
                /\ IsLost(response') <=> lost
                /\ IsWon(response') <=> (~lost /\ pos = old.end_position)
                /\ IsContinuing(response') <=> (~lost /\ pos # old.end_position) ]_vars

\* C17 witness: the second move of a game was "up" from the top row, stayed on
\* the Lava cell the first move landed on and paid the Lava cost a second time.
C17_LavaChargedAgain ==
    /\ MoveLanded
    /\ nreq = 2
    /\ request.direction = "up"
    /\ games[request.game_id].player_position[1] = 0
    /\ response.tile_type = "Lava"
    /\ response.health_lost = 50
    /\ games[request.game_id].health = InitHealth - 100
    /\ games[request.game_id].moves = InitMoves - 20

\* C18: within a game, after creation no valid move ever lands the player on
\* the Start cell: update_game_state is never called with the coordinates of
\* the Start cell.
C18_NeverLandsOnStart ==
    MoveLanded => response.tile_type # "Start"

\* C18, amended: a valid move lands the player on the Start cell exactly when
\* the player stands on the Start cell and steps off the grid, or stands next
\* to it and steps onto it; such a landing changes neither health nor moves
\* and reports health_lost = 0 and moves_lost = 0.
C18_LandsOnStartForFree ==
    [][ (/\ nreq' = nreq + 1
         /\ request'.game_id \in DOMAIN games
         /\ request'.direction \in {"up", "down", "left", "right"}) =>
            LET old == games[request'.game_id]
                new == games'[request'.game_id]
                pos == old.player_position
                to == Unclamped(old, request'.direction)
                onStart(cell) == old.board[cell[1]][cell[2]] = "Start"
            IN  /\ onStart(new.player_position) <=>
                        \/ onStart(pos) /\ to \notin Cells
                        \/ to \in Cells /\ onStart(to)
                /\ onStart(new.player_position) =>
                        /\ new.health = old.health
                        /\ new.moves = old.moves
                        /\ response'.tile_type = "Start"
                        /\ response'.health_lost = 0
                        /\ response'.moves_lost = 0 ]_vars

\* C18 witness: the second move of a game stepped back onto the Start cell
\* from the cell the first move had paid for.
C18_BackOnStart ==
    /\ MoveLanded
    /\ nreq = 2
    /\ response.tile_type = "Start"
    /\ response.moves_lost = 0
    /\ \/ games[request.game_id].moves < InitMoves
       \/ games[request.game_id].health < InitHealth

\* The last request was a valid move and it was answered "Game over, you lost!".
LostAnswered == MoveLanded /\ IsLost(response)

\* C19: Lost is absorbing: once a move on a game has returned the Lost outcome,
\* every later valid move on that game also returns Lost (never Won or
\* Continuing), although moves are still accepted and keep changing position,
\* health and moves.
C19_LostIsAbsorbing ==
    /\ [](LostAnswered => [](MoveLanded => IsLost(response)))
    /\ [][ (/\ nreq' = nreq + 1
            /\ request'.game_id \in DOMAIN games
            /\ request'.direction \in {"up", "down", "left", "right"}
            /\ \/ games[request'.game_id].health <= 0
               \/ games[request'.game_id].moves <= 0) =>
               LET old == games[request'.game_id]
                   new == games'[request'.game_id]
                   to == Target(old, request'.direction)
                   effect == TileEffect(old.board[to[1]][to[2]])
               IN  /\ IsLost(response')
                   /\ new.player_position = to
                   /\ new.health = old.health + effect[1]
                   /\ new.moves = old.moves + effect[2] ]_vars

\* C19 witness: a move on a game that had no health or no moves left was
\* answered Lost again after it moved the player onto another cell and took
\* health or moves.
C19_LostAgainAfterMoving ==
    /\ LostAnswered
    /\ \/ games[request.game_id].health + response.health_lost <= 0
       \/ games[request.game_id].moves + response.moves_lost <= 0
    /\ response.health_lost + response.moves_lost > 0
    /\ response.tile_type \notin {"Lava", "Start"}

\* The game as create_game stored it.
Created(g) ==
    [g EXCEPT !.health = InitHealth,
              !.moves = InitMoves,
              !.player_position = CHOOSE cell \in CellsOfKind(g.board, "Start") : TRUE]

\* The game after one whole call of make_move.
Moved(g, direction) ==
    IF direction \in Directions
    THEN update_game_state(g, Target(g, direction)[1], Target(g, direction)[2])
    ELSE g

\* The games the two requests leave when one is handled after the other.
SerialOutcomes ==
    LET g == Created(games[RaceGame])
    IN  { Moved(Moved(g, local["a"].direction), local["b"].direction),
          Moved(Moved(g, local["b"].direction), local["a"].direction) }

BothDone == \A t \in Threads : pc[t] = "done"

\* The effect thread t charged, and the threads that moved the player.
Charged(t) ==
    IF local[t].direction \in Directions
    THEN TileEffect(local[t].tile_type)
    ELSE <<0, 0>>

Movers == {t \in Threads : local[t].direction \in Directions}

\* C20: with no locking on the registry, two move requests on the same game
\* id whose read-modify-write steps interleave can reach a state that no
\* serial order of the two moves produces: a lost update of health or moves
\* (one request's effect is missing from the total), or a position that does
\* not match the tile whose effect was charged.  When both requests are
\* answered, health and moves hold the effects of both or of one of them, and
\* the position is a cell one of them computed.
C20_RaceOutcomes ==
    BothDone =>
        LET g == games[RaceGame]
            a == Charged("a")
            b == Charged("b")
        IN  /\ g.health \in {InitHealth + a[1] + b[1], InitHealth + a[1],
                             InitHealth + b[1]}
            /\ g.moves \in {InitMoves + a[2] + b[2], InitMoves + a[2],
                            InitMoves + b[2]}
            /\ Movers # {} =>
                    g.player_position \in
                        {<<local[t].row, local[t].col>> : t \in Movers}

\* C20 witness: both requests are answered and the game is in a state neither
\* serial order produces: the health holds the effect of one request only.
C20_LostUpdate ==
    /\ BothDone
    /\ Movers = Threads
    /\ games[RaceGame] \notin SerialOutcomes
    /\ Charged("a")[1] < 0
    /\ Charged("b")[1] < 0
    /\ games[RaceGame].health = InitHealth + Charged("a")[1]
====
